---------------------------- MODULE Spec2Model ----------------------------
(***************************************************************************)
(* Replicated append-only log (module-1/homework-3): a master that assigns *)
(* ids, fans every message out to the secondaries with per-host retry      *)
(* tasks, waits for write_concern - 1 ACKs and gates writes on a quorum of *)
(* Healthy nodes; secondaries that store messages idempotently and expose  *)
(* only the contiguous prefix starting at id 1.                            *)
(*                                                                         *)
(* The master runs on one asyncio event loop: every action below is the    *)
(* code between two suspension points (await of an RPC, of a sleep, or of  *)
(* the next completed task).                                               *)
(***************************************************************************)
EXTENDS Integers, Sequences, FiniteSets, TLC

\* ------------------------------------------------------------------ bounds
\* number of client POST /api/messages calls in a behaviour
MaxAppends == 2
\* number of RPCs (heartbeats and appends) that fail in a behaviour
MaxFailures == 2
\* largest id a secondary is handed in the storage specification
MaxId == 3
\* largest write concern a client asks for
MaxWriteConcern == 3
\* number of attempts a retry task makes on a secondary that is unreachable for good
MaxAttempts == 2
\* largest number of secondaries and largest |write_concern| that
\* _calculate_target_acks is tried on
MaxSecondaries == 6
MaxTargetInput == 8
\* number of failed attempts in a row that the backoff of one retry task is
\* followed through
MaxBackoffFailures == 7

\* ------------------------------------------------------- program constants
RETRY_INITIAL_BACKOFF == 1
RETRY_MAX_BACKOFF == 30

\* settings.secondary_hosts, fixed at start-up
secondaries == {"s1", "s2"}

\* message payloads the clients send
PayloadSeq == <<"a", "b">>
Payloads == {PayloadSeq[i] : i \in 1..Len(PayloadSeq)}

\* enums.NodeStatus
HEALTHY == "Healthy"
SUSPECTED == "Suspected"
UNHEALTHY == "Unhealthy"
NodeStatus == {HEALTHY, SUSPECTED, UNHEALTHY}

VARIABLES
    id_counter,       \* MessageService._id_counter
    master_messages,  \* MessageService._messages (the master's log)
    calls,            \* the append_message calls made so far, in arrival order
    tasks,            \* the _replicate_with_retry task of every (msg_id, host)
    health_status,    \* GrpcReplicator.health_status
    hb_pending,       \* hosts whose _check_single_node of this cycle is pending
    sec_messages,     \* per secondary: MessageStorage._messages
    sorted_ids,       \* per secondary: MessageStorage._sorted_ids
    last_rpc,         \* the last AppendMessage a secondary was sent directly, and its reply
    failures,         \* number of RPCs that have failed so far
    background_tasks, \* GrpcReplicator._background_tasks
    cancelled,        \* the asyncio tasks that task.cancel() has ended
    down,             \* the secondaries that are unreachable for good
    target_call       \* the last _calculate_target_acks called directly, and its result

vars == <<id_counter, master_messages, calls, tasks, health_status,
          hb_pending, sec_messages, sorted_ids, last_rpc, failures,
          background_tasks, cancelled, down, target_call>>

masterVars == <<id_counter, master_messages, calls>>
storageVars == <<sec_messages, sorted_ids, last_rpc>>
heartbeatVars == <<health_status, hb_pending>>
controlVars == <<background_tasks, cancelled, down, target_call>>

Min(a, b) == IF a < b THEN a ELSE b

\* a task that has not been spawned
NoTask == [pc |-> "none", message |-> "", attempt |-> 0, backoff |-> 0,
           result |-> FALSE]

\* the names of the asyncio tasks of the replicator
heartbeat_task == <<0, "heartbeat_monitor">>
retry_task(msg_id, h) == <<msg_id, h>>

\* the master after MessageService.__init__ and GrpcReplicator.start, and the
\* secondaries after MessageStorage.__init__
Constructed ==
    /\ id_counter = 0
    /\ master_messages = <<>>
    /\ calls = <<>>
    /\ tasks = [i \in 1..MaxAppends |-> [h \in secondaries |-> NoTask]]
    /\ health_status = [h \in secondaries |-> HEALTHY]
    /\ hb_pending = secondaries
    /\ sec_messages = [h \in secondaries |-> <<>>]
    /\ sorted_ids = [h \in secondaries |-> <<>>]
    /\ last_rpc = [host |-> "none", id |-> 0, content |-> "", is_new |-> FALSE,
                   success |-> FALSE]
    /\ failures = 0
    /\ background_tasks = {heartbeat_task}
    /\ cancelled = {}
    /\ target_call = [write_concern |-> 1, total_secondaries |-> 0, target |-> 0]

\* every secondary can be reached, though single RPCs may fail
Init == Constructed /\ down = {}

\* one of the secondaries is unreachable from the start and for good
InitUnreachable == Constructed /\ \E h \in secondaries : down = {h}


\* ------------------------------------------- secondary: MessageStorage
\* bisect.bisect_right(a, x, lo, hi): the binary search insort uses
RECURSIVE bisect_right(_, _, _, _)
bisect_right(a, x, lo, hi) ==
    IF lo < hi
    THEN LET mid == (lo + hi) \div 2
         IN  IF x < a[mid + 1]
             THEN bisect_right(a, x, lo, mid)
             ELSE bisect_right(a, x, mid + 1, hi)
    ELSE lo

\* insort as a plain list.append: arrival order instead of id order
insort_append(a, x) == Append(a, x)

\* bisect.insort(a, x): a with x inserted at bisect_right's position
insort(a, x) ==
    LET pos == bisect_right(a, x, 0, Len(a))
    IN  SubSeq(a, 1, pos) \o <<x>> \o SubSeq(a, pos + 1, Len(a))

\* MessageStorage.add_message's return value
add_message_is_new(h, msg_id) == msg_id \notin DOMAIN sec_messages[h]

\* add_message storing the payload without bisect.insort of the id
add_message_unindexed(h, msg_id, msg_content) ==
    IF msg_id \in DOMAIN sec_messages[h]
    THEN UNCHANGED <<sec_messages, sorted_ids>>
    ELSE /\ sec_messages' = [sec_messages EXCEPT
                                ![h] = (msg_id :> msg_content) @@ @]
         /\ UNCHANGED sorted_ids

\* add_message without the membership test: a re-delivery overwrites the
\* payload and inserts the id again
add_message_overwrite(h, msg_id, msg_content) ==
    /\ sec_messages' = [sec_messages EXCEPT
                           ![h] = (msg_id :> msg_content) @@ @]
    /\ sorted_ids' = [sorted_ids EXCEPT ![h] = insort(@, msg_id)]

\* MessageStorage.add_message's effect on the storage of secondary h
add_message(h, msg_id, msg_content) ==
    IF msg_id \in DOMAIN sec_messages[h]
    THEN UNCHANGED <<sec_messages, sorted_ids>>
    ELSE /\ sec_messages' = [sec_messages EXCEPT
                                ![h] = (msg_id :> msg_content) @@ @]
         /\ sorted_ids' = [sorted_ids EXCEPT ![h] = insort(@, msg_id)]

\* the loop of MessageStorage.get_all from position i on, expecting expected_id
RECURSIVE consistent_messages(_, _, _, _)
consistent_messages(ids, msgs, i, expected_id) ==
    IF i > Len(ids)
    THEN <<>>
    ELSE IF ids[i] = expected_id
         THEN <<msgs[ids[i]]>> \o consistent_messages(ids, msgs, i + 1, expected_id + 1)
         ELSE <<>>

\* get_all without the gap check: every stored payload in id order
get_all_no_gap_check(h) ==
    [i \in 1..Len(sorted_ids[h]) |-> sec_messages[h][sorted_ids[h][i]]]

\* MessageStorage.get_all of secondary h (what GET /api/messages returns)
get_all(h) ==
    IF sorted_ids[h] = <<>>
    THEN <<>>
    ELSE consistent_messages(sorted_ids[h], sec_messages[h], 1, 1)

\* ReplicationService.AppendMessage on secondary h: storage.add_message
AppendMessage(h, msg_id, content) == add_message(h, msg_id, content)

\* the request ReplicationService.AppendMessage got on secondary h, the is_new
\* it logs and the Ack(success=True) it returns
AppendMessage_ack(h, msg_id, content) ==
    [host |-> h, id |-> msg_id, content |-> content,
     is_new |-> add_message_is_new(h, msg_id), success |-> TRUE]

\* --------------------------------------------------- master: GrpcReplicator
\* get_quorum_status counting every host that is not Unhealthy
quorum_status_suspected_counts(hosts, health) ==
    LET total_nodes == Cardinality(hosts) + 1
        quorum_needed == (total_nodes \div 2) + 1
        healthy_count == 1 + Cardinality({h \in DOMAIN health :
                                            health[h] # UNHEALTHY})
    IN  healthy_count >= quorum_needed

\* GrpcReplicator.get_quorum_status for a host list and a health table
quorum_status(hosts, health) ==
    LET total_nodes == Cardinality(hosts) + 1
        quorum_needed == (total_nodes \div 2) + 1
        healthy_count == 1 + Cardinality({h \in DOMAIN health :
                                            health[h] = HEALTHY})
    IN  healthy_count >= quorum_needed

\* GrpcReplicator.get_quorum_status of the running replicator
get_quorum_status == quorum_status(secondaries, health_status)

\* _calculate_target_acks with the cap but without the test target <= 0
calculate_target_no_floor(total_secondaries, write_concern) ==
    LET target == write_concern - 1
    IN  IF target > total_secondaries THEN total_secondaries ELSE target

\* GrpcReplicator._calculate_target_acks of a replicator with
\* total_secondaries hosts
calculate_target(total_secondaries, write_concern) ==
    LET target == write_concern - 1
    IN  IF target <= 0 THEN 0
        ELSE IF target > total_secondaries THEN total_secondaries
        ELSE target

\* _calculate_target_acks without the - 1 for the master's own copy
calculate_target_acks_counts_master(write_concern) ==
    calculate_target(Cardinality(secondaries), write_concern + 1)

\* GrpcReplicator._calculate_target_acks of the running replicator
calculate_target_acks(write_concern) ==
    calculate_target(Cardinality(secondaries), write_concern)

\* _spawn_replication_tasks skipping the hosts that are not Healthy
spawn_replication_tasks_healthy_only(msg_id, message) ==
    [tasks EXCEPT ![msg_id] =
        [h \in secondaries |->
            IF health_status[h] = HEALTHY
            THEN [pc |-> "start", message |-> message, attempt |-> 0,
                  backoff |-> RETRY_INITIAL_BACKOFF, result |-> FALSE]
            ELSE NoTask]]

\* _spawn_replication_tasks building the coroutines without
\* asyncio.create_task: nothing is ever scheduled
spawn_replication_tasks_not_scheduled(msg_id, message) == tasks

\* GrpcReplicator._spawn_replication_tasks: one task per secondary, each at
\* the top of _replicate_with_retry's loop
spawn_replication_tasks(msg_id, message) ==
    [tasks EXCEPT ![msg_id] =
        [h \in secondaries |-> [pc |-> "start", message |-> message,
                                attempt |-> 0,
                                backoff |-> RETRY_INITIAL_BACKOFF,
                                result |-> FALSE]]]

\* the lock-protected id allocation incrementing the counter twice
next_msg_id_skips == id_counter + 2

\* the lock-protected id allocation without the increment after the first id
next_msg_id_reused == IF id_counter = 0 THEN 1 ELSE id_counter

\* the id minted under the lock: self._id_counter += 1; msg_id = self._id_counter
next_msg_id == id_counter + 1

\* append_message without the local append: the log is left as it was
local_append_missing(content) == master_messages

\* the local append as an insert at the front of the log
local_append_front(content) == <<content>> \o master_messages

\* self._messages.append(content) under the same lock
local_append(content) == Append(master_messages, content)

\* the threshold test of a wait for all secondaries, whatever the target
acks_reached_all(acks_received, target_acks) ==
    acks_received >= Cardinality(secondaries)

\* the threshold test with an off-by-one: one ACK fewer is enough
acks_reached_one_short(acks_received, target_acks) ==
    acks_received >= target_acks - 1

\* the test that ends _wait_for_acks with True
acks_reached(acks_received, target_acks) == acks_received >= target_acks

\* a call of MessageService.append_message as the model records it
Call(content, write_concern, status, msg_id, target_acks) ==
    [content |-> content, write_concern |-> write_concern, status |-> status,
     msg_id |-> msg_id, target_acks |-> target_acks, acks_received |-> 0,
     consumed |-> {}]

\* append_message holding the allocator lock until replicate_message has
\* returned: no append starts while another one waits for its ACKs
append_message_holds_lock(content, write_concern) ==
    /\ Len(calls) < MaxAppends
    /\ \A c \in 1..Len(calls) : calls[c].status # "waiting"
    /\ IF ~get_quorum_status
       THEN /\ calls' = Append(calls, Call(content, write_concern, "quorum_lost", 0, 0))
            /\ UNCHANGED <<id_counter, master_messages, tasks>>
       ELSE LET msg_id == next_msg_id
                target_acks == calculate_target_acks(write_concern)
            IN  /\ id_counter' = msg_id
                /\ master_messages' = local_append(content)
                /\ IF ~get_quorum_status
                   THEN /\ calls' = Append(calls, Call(content, write_concern, "unmet", msg_id, 0))
                        /\ UNCHANGED tasks
                   ELSE /\ tasks' = spawn_replication_tasks(msg_id, content)
                        /\ calls' = Append(calls,
                              Call(content, write_concern,
                                   IF target_acks = 0 THEN "success" ELSE "waiting",
                                   msg_id, target_acks))
    /\ UNCHANGED <<controlVars, heartbeatVars, storageVars, failures>>

\* MessageService.append_message up to its first suspension point: the quorum
\* gate, the id allocation and local append under the lock, then
\* replicate_message (quorum pre-check, target, spawn) and the target == 0
\* return of _wait_for_acks.  "quorum_lost" is HTTP 503, "unmet" HTTP 500.
append_message(content, write_concern) ==
    /\ Len(calls) < MaxAppends
    /\ IF ~get_quorum_status
       THEN /\ calls' = Append(calls, Call(content, write_concern, "quorum_lost", 0, 0))
            /\ UNCHANGED <<id_counter, master_messages, tasks>>
       ELSE LET msg_id == next_msg_id
                target_acks == calculate_target_acks(write_concern)
            IN  /\ id_counter' = msg_id
                /\ master_messages' = local_append(content)
                /\ IF ~get_quorum_status
                   THEN /\ calls' = Append(calls, Call(content, write_concern, "unmet", msg_id, 0))
                        /\ UNCHANGED tasks
                   ELSE /\ tasks' = spawn_replication_tasks(msg_id, content)
                        /\ calls' = Append(calls,
                              Call(content, write_concern,
                                   IF target_acks = 0 THEN "success" ELSE "waiting",
                                   msg_id, target_acks))
    /\ UNCHANGED <<controlVars, heartbeatVars, storageVars, failures>>

\* _wait_for_acks giving up on the first task that returns False instead of
\* reading the remaining completions
wait_for_acks_fail_fast(c) ==
    /\ c \in 1..Len(calls)
    /\ calls[c].status = "waiting"
    /\ LET call == calls[c]
           completed == {h \in secondaries : tasks[call.msg_id][h].pc = "done"}
           unread == completed \ call.consumed
       IN  \E h \in unread :
             LET is_success == tasks[call.msg_id][h].result
                 acks == call.acks_received + (IF is_success THEN 1 ELSE 0)
             IN  calls' = [calls EXCEPT
                             ![c].acks_received = acks,
                             ![c].consumed = @ \cup {h},
                             ![c].status =
                                 IF ~is_success
                                 THEN "unmet"
                                 ELSE IF acks_reached(acks, call.target_acks)
                                 THEN "success"
                                 ELSE IF call.consumed \cup {h} = secondaries
                                 THEN "unmet"
                                 ELSE @]
    /\ UNCHANGED <<controlVars, id_counter, master_messages, tasks, heartbeatVars,
                   storageVars, failures>>

\* GrpcReplicator._wait_for_acks resumed by asyncio.as_completed: the next
\* completed task not yet read is read and counted if it returned True; the
\* call returns True on the target-th ACK, and False when that was the last
\* task and the target is not reached.
wait_for_acks(c) ==
    /\ c \in 1..Len(calls)
    /\ calls[c].status = "waiting"
    /\ LET call == calls[c]
           completed == {h \in secondaries : tasks[call.msg_id][h].pc = "done"}
           unread == completed \ call.consumed
       IN  \E h \in unread :
             LET is_success == tasks[call.msg_id][h].result
                 acks == call.acks_received + (IF is_success THEN 1 ELSE 0)
             IN  calls' = [calls EXCEPT
                             ![c].acks_received = acks,
                             ![c].consumed = @ \cup {h},
                             ![c].status =
                                 IF acks_reached(acks, call.target_acks)
                                 THEN "success"
                                 ELSE IF call.consumed \cup {h} = secondaries
                                 THEN "unmet"
                                 ELSE @]
    /\ UNCHANGED <<controlVars, id_counter, master_messages, tasks, heartbeatVars,
                   storageVars, failures>>


\* --------------------------------- master: _replicate_with_retry(host, msg_id)
\* the loop without the health check: the RPC is issued whatever the status
loop_top_ignores_health(h) == "rpc"

\* top of the while loop, run without suspension whenever the task resumes:
\* an Unhealthy host makes the task sleep 5 s ("sleep"), any other status
\* makes it issue stub.AppendMessage and await the reply ("rpc")
loop_top(h) == IF health_status[h] = UNHEALTHY THEN "sleep" ELSE "rpc"

\* an RPC to h raises: one of the at most MaxFailures transient failures of a
\* behaviour, or any RPC to a secondary that is unreachable for good
rpc_fails(h) ==
    IF h \in down
    THEN UNCHANGED failures
    ELSE /\ failures < MaxFailures
         /\ failures' = failures + 1

\* the event loop runs the task created by _spawn_replication_tasks
retry_start(msg_id, h) ==
    /\ tasks[msg_id][h].pc = "start"
    /\ retry_task(msg_id, h) \notin cancelled
    /\ tasks' = [tasks EXCEPT ![msg_id][h].pc = loop_top(h)]
    /\ UNCHANGED <<controlVars, masterVars, heartbeatVars, storageVars, failures>>

\* asyncio.sleep(5) is over: continue with the loop
retry_unhealthy_wake(msg_id, h) ==
    /\ tasks[msg_id][h].pc = "sleep"
    /\ retry_task(msg_id, h) \notin cancelled
    /\ tasks' = [tasks EXCEPT ![msg_id][h].pc = loop_top(h)]
    /\ UNCHANGED <<controlVars, masterVars, heartbeatVars, storageVars, failures>>

\* stub.AppendMessage returns: the secondary has handled the request and the
\* task returns True
retry_rpc_success(msg_id, h) ==
    /\ tasks[msg_id][h].pc = "rpc"
    /\ retry_task(msg_id, h) \notin cancelled
    /\ h \notin down
    /\ AppendMessage(h, msg_id, tasks[msg_id][h].message)
    /\ tasks' = [tasks EXCEPT ![msg_id][h].pc = "done",
                              ![msg_id][h].result = TRUE]
    /\ UNCHANGED <<controlVars, masterVars, heartbeatVars, last_rpc, failures>>

\* the except branch without the retry: the task logs the error and returns
\* False, as _replicate_single of homework-2 does
retry_rpc_failure_gives_up(msg_id, h, delivered) ==
    /\ tasks[msg_id][h].pc = "rpc"
    /\ retry_task(msg_id, h) \notin cancelled
    /\ rpc_fails(h)
    /\ h \in down => ~delivered /\ tasks[msg_id][h].attempt < MaxAttempts
    /\ tasks' = [tasks EXCEPT ![msg_id][h].pc = "done",
                              ![msg_id][h].attempt = @ + 1,
                              ![msg_id][h].result = FALSE]
    /\ IF delivered
       THEN AppendMessage(h, msg_id, tasks[msg_id][h].message)
       ELSE UNCHANGED <<sec_messages, sorted_ids>>
    /\ UNCHANGED <<controlVars, masterVars, heartbeatVars, last_rpc>>

\* the except branch also marking the host Unhealthy in the health table
retry_rpc_failure_marks_unhealthy(msg_id, h, delivered) ==
    /\ tasks[msg_id][h].pc = "rpc"
    /\ retry_task(msg_id, h) \notin cancelled
    /\ rpc_fails(h)
    /\ h \in down => ~delivered /\ tasks[msg_id][h].attempt < MaxAttempts
    /\ tasks' = [tasks EXCEPT ![msg_id][h].pc = "backoff",
                              ![msg_id][h].attempt = @ + 1]
    /\ health_status' = [health_status EXCEPT ![h] = UNHEALTHY]
    /\ IF delivered
       THEN AppendMessage(h, msg_id, tasks[msg_id][h].message)
       ELSE UNCHANGED <<sec_messages, sorted_ids>>
    /\ UNCHANGED <<controlVars, masterVars, hb_pending, last_rpc>>

\* stub.AppendMessage raises (timeout, transport error): attempt += 1 and the
\* task sleeps backoff seconds.  delivered: the secondary handled the request
\* although its reply did not arrive in time.
retry_rpc_failure(msg_id, h, delivered) ==
    /\ tasks[msg_id][h].pc = "rpc"
    /\ retry_task(msg_id, h) \notin cancelled
    /\ rpc_fails(h)
    /\ h \in down => ~delivered /\ tasks[msg_id][h].attempt < MaxAttempts
    /\ tasks' = [tasks EXCEPT ![msg_id][h].pc = "backoff",
                              ![msg_id][h].attempt = @ + 1]
    /\ IF delivered
       THEN AppendMessage(h, msg_id, tasks[msg_id][h].message)
       ELSE UNCHANGED <<sec_messages, sorted_ids>>
    /\ UNCHANGED <<controlVars, masterVars, heartbeatVars, last_rpc>>

\* the backoff update without the cap: backoff = backoff * 2
retry_backoff_done_uncapped(msg_id, h) ==
    /\ tasks[msg_id][h].pc = "backoff"
    /\ retry_task(msg_id, h) \notin cancelled
    /\ tasks' = [tasks EXCEPT ![msg_id][h].pc = loop_top(h),
                              ![msg_id][h].backoff = @ * 2]
    /\ UNCHANGED <<controlVars, masterVars, heartbeatVars, storageVars, failures>>

\* asyncio.sleep(backoff) is over: the backoff doubles up to
\* RETRY_MAX_BACKOFF and the loop continues
retry_backoff_done(msg_id, h) ==
    /\ tasks[msg_id][h].pc = "backoff"
    /\ retry_task(msg_id, h) \notin cancelled
    /\ tasks' = [tasks EXCEPT ![msg_id][h].pc = loop_top(h),
                              ![msg_id][h].backoff =
                                  Min(@ * 2, RETRY_MAX_BACKOFF)]
    /\ UNCHANGED <<controlVars, masterVars, heartbeatVars, storageVars, failures>>

\* ------------------------------------------------ master: heartbeat monitor
\* _check_single_node without the reset to Healthy after a successful ping
check_single_node_no_recovery(h, ok) ==
    /\ h \in hb_pending
    /\ heartbeat_task \notin cancelled
    /\ ok => h \notin down
    /\ hb_pending' = hb_pending \ {h}
    /\ IF ok
       THEN UNCHANGED <<health_status, failures>>
       ELSE /\ rpc_fails(h)
            /\ health_status' = [health_status EXCEPT ![h] =
                  IF @ = HEALTHY THEN SUSPECTED
                  ELSE IF @ = SUSPECTED THEN UNHEALTHY
                  ELSE @]
    /\ UNCHANGED <<controlVars, masterVars, tasks, storageVars>>

\* _check_single_node marking a host Unhealthy on its first failed ping
check_single_node_no_suspicion(h, ok) ==
    /\ h \in hb_pending
    /\ heartbeat_task \notin cancelled
    /\ ok => h \notin down
    /\ hb_pending' = hb_pending \ {h}
    /\ IF ok
       THEN /\ health_status' = [health_status EXCEPT ![h] = HEALTHY]
            /\ UNCHANGED failures
       ELSE /\ rpc_fails(h)
            /\ health_status' = [health_status EXCEPT ![h] = UNHEALTHY]
    /\ UNCHANGED <<controlVars, masterVars, tasks, storageVars>>

\* GrpcReplicator._check_single_node(host), the ping succeeding (ok) or not
check_single_node(h, ok) ==
    /\ h \in hb_pending
    /\ heartbeat_task \notin cancelled
    /\ ok => h \notin down
    /\ hb_pending' = hb_pending \ {h}
    /\ IF ok
       THEN /\ health_status' = [health_status EXCEPT ![h] = HEALTHY]
            /\ UNCHANGED failures
       ELSE /\ rpc_fails(h)
            /\ health_status' = [health_status EXCEPT ![h] =
                  IF @ = HEALTHY THEN SUSPECTED
                  ELSE IF @ = SUSPECTED THEN UNHEALTHY
                  ELSE @]
    /\ UNCHANGED <<controlVars, masterVars, tasks, storageVars>>

\* GrpcReplicator._heartbeat_monitor: the gather of one cycle is complete and
\* the HEARTBEAT_INTERVAL sleep is over; the next cycle checks every host
heartbeat_monitor ==
    /\ hb_pending = {}
    /\ heartbeat_task \notin cancelled
    /\ hb_pending' = secondaries
    /\ UNCHANGED <<controlVars, masterVars, tasks, health_status, storageVars, failures>>

\* GrpcReplicator.stop: every task of _background_tasks is cancelled and
\* awaited, then the list is cleared
stop ==
    /\ background_tasks # {}
    /\ cancelled' = cancelled \cup background_tasks
    /\ background_tasks' = {}
    /\ UNCHANGED <<masterVars, tasks, heartbeatVars, storageVars, failures,
                   down, target_call>>

\* ------------------------------------------------------------ specification
\* The code never inspects a payload, so behaviours that differ only by a
\* renaming of payloads are the same: a client sends a payload already sent
\* or the first payload not sent yet.
ClientPayloads ==
    LET sent == {calls[k].content : k \in 1..Len(calls)}
    IN  sent \cup {PayloadSeq[i] : i \in {Min(Cardinality(sent) + 1, Len(PayloadSeq))}}

Next ==
    \/ \E content \in ClientPayloads, write_concern \in 1..MaxWriteConcern :
          append_message(content, write_concern)
    \/ \E c \in 1..MaxAppends : wait_for_acks(c)
    \/ \E msg_id \in 1..MaxAppends, h \in secondaries :
          \/ retry_start(msg_id, h)
          \/ retry_unhealthy_wake(msg_id, h)
          \/ retry_rpc_success(msg_id, h)
          \/ \E delivered \in BOOLEAN : retry_rpc_failure(msg_id, h, delivered)
          \/ retry_backoff_done(msg_id, h)
    \/ \E h \in secondaries, ok \in BOOLEAN : check_single_node(h, ok)
    \/ heartbeat_monitor

Spec == Init /\ [][Next]_vars

TypeOK ==
    /\ id_counter \in 0..MaxAppends
    /\ Len(master_messages) = id_counter
    /\ failures \in 0..MaxFailures
    /\ hb_pending \subseteq secondaries
    /\ \A h \in secondaries : health_status[h] \in NodeStatus


\* ------------------------------------------------- the secondary on its own
\* a secondary is sent AppendMessage(msg_id, content) for any id and payload,
\* in any order and any number of times
grpc_AppendMessage(h, msg_id, content) ==
    /\ AppendMessage(h, msg_id, content)
    /\ last_rpc' = AppendMessage_ack(h, msg_id, content)
    /\ UNCHANGED <<controlVars, masterVars, tasks, heartbeatVars, failures>>

NextStorage ==
    \E h \in secondaries, msg_id \in 1..MaxId, content \in Payloads :
        grpc_AppendMessage(h, msg_id, content)

SpecStorage == Init /\ [][NextStorage]_vars

\* ------------------------------------ homework-2: replication without retry
\* The master of homework-2 has no heartbeat, no quorum gate and no retry:
\* _replicate_single sends one AppendMessage and returns the Ack's success,
\* or False when the RPC raises.  _calculate_target_acks and _wait_for_acks
\* are the same code as in homework-3.
InitHw2 ==
    /\ id_counter = 0
    /\ master_messages = <<>>
    /\ calls = <<>>
    /\ tasks = [i \in 1..MaxAppends |-> [h \in secondaries |-> NoTask]]
    /\ health_status = [h \in secondaries |-> HEALTHY]
    /\ hb_pending = {}
    /\ sec_messages = [h \in secondaries |-> <<>>]
    /\ sorted_ids = [h \in secondaries |-> <<>>]
    /\ last_rpc = [host |-> "none", id |-> 0, content |-> "", is_new |-> FALSE,
                   success |-> FALSE]
    /\ failures = 0
    /\ background_tasks = {}
    /\ cancelled = {}
    /\ down = {}
    /\ target_call = [write_concern |-> 1, total_secondaries |-> 0, target |-> 0]

\* homework-2 _spawn_replication_tasks: one _replicate_single task per secondary
hw2_spawn_replication_tasks(msg_id, message) ==
    [tasks EXCEPT ![msg_id] =
        [h \in secondaries |-> [pc |-> "start", message |-> message,
                                attempt |-> 0, backoff |-> 0,
                                result |-> FALSE]]]

\* homework-2 MessageService.append_message up to its first suspension point:
\* _get_next_id, the local append, then replicate_message (target, spawn) and
\* the target == 0 return of _wait_for_acks
hw2_append_message(content, write_concern) ==
    /\ Len(calls) < MaxAppends
    /\ LET msg_id == id_counter + 1
           target_acks == calculate_target_acks(write_concern)
       IN  /\ id_counter' = msg_id
           /\ master_messages' = Append(master_messages, content)
           /\ tasks' = hw2_spawn_replication_tasks(msg_id, content)
           /\ calls' = Append(calls,
                 Call(content, write_concern,
                      IF target_acks = 0 THEN "success" ELSE "waiting",
                      msg_id, target_acks))
    /\ UNCHANGED <<controlVars, heartbeatVars, storageVars, failures>>

\* the event loop runs the task: _replicate_single opens the channel and
\* awaits stub.AppendMessage
replicate_single_start(msg_id, h) ==
    /\ tasks[msg_id][h].pc = "start"
    /\ tasks' = [tasks EXCEPT ![msg_id][h].pc = "rpc"]
    /\ UNCHANGED <<controlVars, masterVars, heartbeatVars, storageVars, failures>>

\* the Ack arrives: the secondary has stored the message and the task returns
\* response.success, which the secondary always sets to True
replicate_single_success(msg_id, h) ==
    /\ tasks[msg_id][h].pc = "rpc"
    /\ AppendMessage(h, msg_id, tasks[msg_id][h].message)
    /\ tasks' = [tasks EXCEPT
                    ![msg_id][h].pc = "done",
                    ![msg_id][h].result =
                        AppendMessage_ack(h, msg_id, tasks[msg_id][h].message).success]
    /\ UNCHANGED <<controlVars, masterVars, heartbeatVars, last_rpc, failures>>

\* stub.AppendMessage raises (timeout, transport error): the task returns
\* False.  delivered: the secondary handled the request although its reply did
\* not arrive in time.
replicate_single_failure(msg_id, h, delivered) ==
    /\ tasks[msg_id][h].pc = "rpc"
    /\ rpc_fails(h)
    /\ tasks' = [tasks EXCEPT ![msg_id][h].pc = "done",
                              ![msg_id][h].result = FALSE]
    /\ IF delivered
       THEN AppendMessage(h, msg_id, tasks[msg_id][h].message)
       ELSE UNCHANGED <<sec_messages, sorted_ids>>
    /\ UNCHANGED <<controlVars, masterVars, heartbeatVars, last_rpc>>

NextHw2 ==
    \/ \E content \in ClientPayloads, write_concern \in 1..MaxWriteConcern :
          hw2_append_message(content, write_concern)
    \/ \E c \in 1..MaxAppends : wait_for_acks(c)
    \/ \E msg_id \in 1..MaxAppends, h \in secondaries :
          \/ replicate_single_start(msg_id, h)
          \/ replicate_single_success(msg_id, h)
          \/ \E delivered \in BOOLEAN : replicate_single_failure(msg_id, h, delivered)

SpecHw2 == InitHw2 /\ [][NextHw2]_vars

\* ---------------------------------------- _calculate_target_acks on its own
\* _calculate_target_acks called on a replicator with total_secondaries hosts
\* for any integer write_concern, zero and negative ones included
calculate_target_acks_call(total_secondaries, write_concern) ==
    /\ target_call' = [write_concern |-> write_concern,
                       total_secondaries |-> total_secondaries,
                       target |-> calculate_target(total_secondaries, write_concern)]
    /\ UNCHANGED <<masterVars, tasks, heartbeatVars, storageVars, failures,
                   background_tasks, cancelled, down>>

NextTarget ==
    \E total_secondaries \in 0..MaxSecondaries,
       write_concern \in (0 - MaxTargetInput)..MaxTargetInput :
        calculate_target_acks_call(total_secondaries, write_concern)

SpecTarget == Init /\ [][NextTarget]_vars

\* ------------------------------------------------------------------ claims
IsPrefix(s, t) == Len(s) <= Len(t) /\ \A i \in 1..Len(s) : s[i] = t[i]

\* the ids stored on secondary h
StoredIds(h) == DOMAIN sec_messages[h]

\* C1: in every reachable state the sequence a secondary's get_all returns is
\* a prefix of the master's log: same payloads at the same positions.
C1_SecondaryPrefixOfPrimary ==
    \A h \in secondaries : IsPrefix(get_all(h), master_messages)

\* C1 witness: a secondary that got id 2 before id 1 while another one
\* already exposes a non-empty prefix
C1_Witness ==
    /\ \E h \in secondaries : StoredIds(h) = {2}
    /\ \E h \in secondaries : get_all(h) # <<>>
    /\ failures > 0

\* the largest m with 1..m contained in the ids stored on h
ContiguousUpTo(h) ==
    CHOOSE m \in 0..Cardinality(StoredIds(h)) :
        /\ \A i \in 1..m : i \in StoredIds(h)
        /\ (m + 1) \notin StoredIds(h)

Occurrences(ids, msg_id) ==
    Cardinality({i \in 1..Len(ids) : ids[i] = msg_id})

\* C3: AppendMessage(id, p) is idempotent on id: a delivery of an id already
\* stored, even with another payload, leaves the storage as the first
\* delivery left it; after any delivery the id is stored exactly once in the
\* map and in the sorted id list; every delivery returns success = true.
C3_AppendIdempotent ==
    [][LET r == last_rpc'
       IN  /\ r.success = TRUE
           /\ r.id \in DOMAIN sec_messages'[r.host]
           /\ Occurrences(sorted_ids'[r.host], r.id) = 1
           /\ (r.id \in DOMAIN sec_messages[r.host]
                 => /\ sec_messages' = sec_messages
                    /\ sorted_ids' = sorted_ids
                    /\ r.is_new = FALSE)
           /\ (r.id \notin DOMAIN sec_messages[r.host]
                 => sec_messages'[r.host][r.id] = r.content)]_vars

\* C3 witness: a re-delivery that carried a different payload has been
\* answered and the first payload is still the one stored
C3_Witness ==
    /\ last_rpc.host \in secondaries
    /\ last_rpc.is_new = FALSE
    /\ last_rpc.success = TRUE
    /\ sec_messages[last_rpc.host][last_rpc.id] # last_rpc.content


\* the calls that passed the quorum gate, and those that returned an id
Allocated == {c \in 1..Len(calls) : calls[c].status # "quorum_lost"}
Succeeded == {c \in 1..Len(calls) : calls[c].status = "success"}
Waiting == {c \in 1..Len(calls) : calls[c].status = "waiting"}

\* the secondaries whose retry task for msg_id has returned True after the
\* secondary stored the id
Acked(msg_id) ==
    {h \in secondaries : /\ tasks[msg_id][h].pc = "done"
                         /\ tasks[msg_id][h].result
                         /\ msg_id \in StoredIds(h)}

\* C4: whenever an append with write concern w has returned success, at least
\* min(w - 1, |secondaries|) distinct secondaries have acknowledged, and so
\* stored, its id; with w - 1 >= |secondaries| every secondary has.
C4_WriteConcernMet ==
    \A c \in Succeeded :
        /\ Cardinality(Acked(calls[c].msg_id)) >=
              Min(calls[c].write_concern - 1, Cardinality(secondaries))
        /\ (calls[c].write_concern - 1 >= Cardinality(secondaries)
              => Acked(calls[c].msg_id) = secondaries)

\* C4 witness: an append that asked for every secondary has returned success
\* after a failed attempt was retried
C4_Witness ==
    \E c \in Succeeded :
        /\ calls[c].write_concern - 1 >= Cardinality(secondaries)
        /\ \E h \in secondaries : tasks[calls[c].msg_id][h].attempt > 0

\* the quorum arithmetic of the claim: N = 1 + |secondary_hosts| nodes,
\* healthy = 1 + the hosts whose status is Healthy
HealthyNodes ==
    1 + Cardinality({h \in secondaries : health_status[h] = HEALTHY})
QuorumNeeded == ((1 + Cardinality(secondaries)) \div 2) + 1

\* C5: every append started while healthy < floor(N/2) + 1 fails with
\* QuorumLost (503) and leaves the id counter and the master's log unchanged
\* (and spawns no task).
\* The claim's example, 4 secondaries of which 3 are not Healthy, has no quorum.
C5_QuorumGate ==
    [][/\ (Len(calls') = Len(calls) + 1 /\ HealthyNodes < QuorumNeeded)
            => /\ calls'[Len(calls')].status = "quorum_lost"
               /\ id_counter' = id_counter
               /\ master_messages' = master_messages
               /\ tasks' = tasks
       /\ ~quorum_status({"s1", "s2", "s3", "s4"},
                         [s1 |-> HEALTHY, s2 |-> SUSPECTED,
                          s3 |-> SUSPECTED, s4 |-> UNHEALTHY])]_vars

\* C5 witness: an append was rejected with QuorumLost while a host was only
\* Suspected, after an earlier append had been accepted
C5_Witness ==
    /\ \E c \in 1..Len(calls) : calls[c].status = "quorum_lost"
    /\ \E h \in secondaries : health_status[h] = SUSPECTED
    /\ id_counter = 1


\* the ids the successful appends returned to their clients
ReturnedIds == {calls[c].msg_id : c \in Succeeded}

\* C7 as claimed: the ids returned by the successful appends form exactly the
\* set 1..n, n the number of successful appends.
C7_Original == ReturnedIds = 1..Cardinality(Succeeded)

\* C7 amended: the ids returned by the successful appends are pairwise
\* distinct; the j-th append that passed the quorum gate holds id j, so the
\* returned ids lie in 1..id_counter; and they form exactly 1..n whenever no
\* append that passed the gate is still waiting for its ACKs.
C7_ReturnedIdsDense ==
    /\ \A c, d \in Succeeded : calls[c].msg_id = calls[d].msg_id => c = d
    /\ \A c \in Allocated :
          calls[c].msg_id = Cardinality({d \in Allocated : d <= c})
    /\ ReturnedIds \subseteq 1..id_counter
    /\ (Allocated = Succeeded => ReturnedIds = 1..Cardinality(Succeeded))

\* C7 witness: two appends have returned the ids 1 and 2, the second one
\* before the first
C7_Witness ==
    /\ ReturnedIds = {1, 2}
    /\ \E c \in Succeeded : calls[c].msg_id = 1 /\ calls[c].target_acks > 0
    /\ \E c \in Succeeded : calls[c].msg_id = 2 /\ calls[c].target_acks = 0

\* MessageService.get_messages: a copy of the log
get_messages == master_messages

\* the payloads of the calls cs in the order of their ids
RECURSIVE PayloadsInIdOrder(_)
PayloadsInIdOrder(cs) ==
    IF cs = {}
    THEN <<>>
    ELSE LET first == CHOOSE c \in cs :
                          \A d \in cs : calls[c].msg_id <= calls[d].msg_id
         IN  <<calls[first].content>> \o PayloadsInIdOrder(cs \ {first})

\* C8 as claimed: after k successful appends the master's list is exactly the
\* k payloads of those appends in id order, and nothing else.
C8_Original == get_messages = PayloadsInIdOrder(Succeeded)

\* C8 amended: the master's list is exactly the payloads of the appends that
\* passed the quorum gate, successful or still waiting for ACKs, in id order,
\* the payload of id i at position i; it is exactly the k payloads of the k
\* successful appends whenever no append is waiting.
C8_PrimaryList ==
    /\ get_messages = PayloadsInIdOrder(Allocated)
    /\ \A c \in Allocated : get_messages[calls[c].msg_id] = calls[c].content
    /\ (Allocated = Succeeded => get_messages = PayloadsInIdOrder(Succeeded))

\* C8 witness: two successful appends with different payloads, one of them
\* retried: the list holds both payloads in id order
C8_Witness ==
    /\ Cardinality(Succeeded) = 2
    /\ get_messages = <<PayloadSeq[1], PayloadSeq[2]>>
    /\ failures > 0

FirstAttemptsResolved(msg_id) ==
    \A h \in secondaries :
        \/ tasks[msg_id][h].attempt > 0
        \/ tasks[msg_id][h].pc = "done"

\* the secondaries that acknowledged msg_id on the first attempt
FirstAttemptAcks(msg_id) ==
    {h \in secondaries : /\ tasks[msg_id][h].pc = "done"
                         /\ tasks[msg_id][h].result
                         /\ tasks[msg_id][h].attempt = 0}

\* the appends whose write concern the first attempts did not meet
UnmetByFirstAttempts ==
    {c \in Allocated :
        /\ FirstAttemptsResolved(calls[c].msg_id)
        /\ Cardinality(FirstAttemptAcks(calls[c].msg_id)) < calls[c].target_acks}

\* _wait_for_acks of call c has a completed task to read
WaitCanProceed(c) ==
    \E h \in secondaries \ calls[c].consumed :
        tasks[calls[c].msg_id][h].pc = "done"

retry_step ==
    \E msg_id \in 1..MaxAppends, h \in secondaries :
        \/ retry_start(msg_id, h)
        \/ retry_unhealthy_wake(msg_id, h)
        \/ retry_rpc_success(msg_id, h)
        \/ \E delivered \in BOOLEAN : retry_rpc_failure(msg_id, h, delivered)
        \/ retry_backoff_done(msg_id, h)

heartbeat_step ==
    \/ \E h \in secondaries, ok \in BOOLEAN : check_single_node(h, ok)
    \/ heartbeat_monitor

Fairness == WF_vars(retry_step) /\ WF_vars(heartbeat_step)

FairSpec == Init /\ [][Next]_vars /\ Fairness

\* the appends that passed the gate and asked for no remote ACK
TargetZero == {c \in Allocated : calls[c].write_concern <= 1}

\* C13: an append with write_concern <= 1 that passes the quorum gate has
\* target 0 and returns success in the step that allocates its id, without
\* reading any completion; a retry task for every secondary has been spawned
\* with its payload, and a task stays live after the append has returned: it
\* ends only by returning True, with the id stored on its host.
C13_TargetZeroReturnsAtOnce ==
    \A c \in TargetZero :
        /\ calls[c].target_acks = 0
        /\ calls[c].status = "success"
        /\ calls[c].consumed = {}
        /\ calls[c].acks_received = 0
        /\ \A h \in secondaries :
              LET t == tasks[calls[c].msg_id][h]
              IN  /\ t.pc \in {"start", "sleep", "rpc", "backoff", "done"}
                  /\ t.message = calls[c].content
                  /\ t.pc = "done" =>
                        t.result /\ calls[c].msg_id \in StoredIds(h)

\* C13 witness: an append with target 0 has returned while one of its tasks
\* has not run yet and the other one is backing off after a failed attempt,
\* the id stored nowhere
C13_Witness ==
    \E c \in TargetZero : \E h, g \in secondaries :
        /\ calls[c].status = "success"
        /\ tasks[calls[c].msg_id][h].pc = "start"
        /\ tasks[calls[c].msg_id][g].pc = "backoff"
        /\ \A k \in secondaries : calls[c].msg_id \notin StoredIds(k)

\* C15: the j-th append that passes the quorum gate, whatever became of it,
\* holds id j: the allocated ids are 1, 2, 3, ... in call order, without gap
\* or reuse; between any two steps the log is as long as the counter, and
\* log[i] (0-based: log[i-1]) is the payload of the call that holds id i and
\* the payload every retry task of id i sends to its secondary.
C15_AllocatorInvariant ==
    /\ Len(master_messages) = id_counter
    /\ {calls[c].msg_id : c \in Allocated} = 1..id_counter
    /\ \A c, d \in Allocated : c < d => calls[c].msg_id < calls[d].msg_id
    /\ \A c \in Allocated :
          /\ master_messages[calls[c].msg_id] = calls[c].content
          /\ \A h \in secondaries :
                tasks[calls[c].msg_id][h].message = calls[c].content
    /\ \A i \in 1..MaxAppends : \A h \in secondaries :
          tasks[i][h].pc # "none" =>
              i <= id_counter /\ tasks[i][h].message = master_messages[i]

\* C15 witness: two appends are waiting for their ACKs at the same time,
\* with different payloads under the ids 1 and 2 and RPCs of both in flight
C15_Witness ==
    /\ Len(calls) = MaxAppends
    /\ Waiting = Allocated
    /\ id_counter = 2
    /\ master_messages[1] # master_messages[2]
    /\ \E h \in secondaries : tasks[2][h].pc = "rpc" /\ tasks[1][h].pc = "rpc"

\* the AppendMessage RPCs that have been issued and not answered yet
RpcsInFlight ==
    {t \in (1..MaxAppends) \X secondaries : tasks[t[1]][t[2]].pc = "rpc"}

\* C16: whenever an AppendMessage RPC carrying id i is in flight, and
\* whenever a secondary stores id i, the master's log already holds that
\* payload at position i (0-based: i - 1); so no secondary stores an id
\* greater than the current length of the master's log.
C16_DurableBeforeFanOut ==
    /\ \A t \in RpcsInFlight :
          /\ t[1] <= Len(master_messages)
          /\ master_messages[t[1]] = tasks[t[1]][t[2]].message
    /\ \A h \in secondaries : \A i \in StoredIds(h) :
          /\ i <= Len(master_messages)
          /\ master_messages[i] = sec_messages[h][i]

\* C16 witness: a secondary stores the newest id of the log, whose append is
\* still waiting, while the RPC to the other secondary is in flight
C16_Witness ==
    \E h, g \in secondaries :
        /\ Len(master_messages) = 2
        /\ 2 \in StoredIds(h)
        /\ <<2, g>> \in RpcsInFlight
        /\ \E c \in Waiting : calls[c].msg_id = 2

\* C17: after any sequence of add_message calls, in any order of ids and
\* with repeated ids, the sorted id list of a secondary is strictly
\* ascending, so without duplicate, and the set of its elements is exactly
\* the key set of the map from id to payload.
C17_SortedIdsAreTheKeys ==
    \A h \in secondaries :
        LET ids == sorted_ids[h]
        IN  /\ \A i \in 1..(Len(ids) - 1) : ids[i] < ids[i + 1]
            /\ \A i, j \in 1..Len(ids) : ids[i] = ids[j] => i = j
            /\ {ids[i] : i \in 1..Len(ids)} = DOMAIN sec_messages[h]
            /\ Len(ids) = Cardinality(DOMAIN sec_messages[h])

\* C17 witness: a secondary that held the ids 2 and 3 has just stored id 1,
\* while the other secondary holds the ids 1 and 3
C17_Witness ==
    \E h \in secondaries :
        /\ last_rpc.host = h
        /\ last_rpc.id = 1
        /\ last_rpc.is_new
        /\ sorted_ids[h] = <<1, 2, 3>>
        /\ \E g \in secondaries \ {h} : sorted_ids[g] = <<1, 3>>

\* the tasks of a call that have completed, and those that returned True
CompletedTasks(c) ==
    {h \in secondaries : tasks[calls[c].msg_id][h].pc = "done"}
SuccessfulTasks(c) ==
    {h \in CompletedTasks(c) : tasks[calls[c].msg_id][h].result}

\* C19: with target > 0 the ACK wait returns False only when every spawned
\* task has completed and fewer than target of them returned True, so never
\* while a task is pending; it returns True only when at least target tasks
\* returned True; and once all tasks have completed with fewer than target
\* successes the wait has returned False or is reading the completions left,
\* it never returns True.
C19_AckWaitResult ==
    \A c \in 1..Len(calls) :
        LET target == calls[c].target_acks
            short == /\ target > 0
                     /\ CompletedTasks(c) = secondaries
                     /\ Cardinality(SuccessfulTasks(c)) < target
        IN  /\ calls[c].status = "unmet" => short
            /\ (calls[c].status = "success" /\ target > 0) =>
                  Cardinality(SuccessfulTasks(c)) >= target
            /\ short => \/ calls[c].status = "unmet"
                        \/ calls[c].status = "waiting" /\ WaitCanProceed(c)

\* C19 witness: a wait for 2 ACKs has returned False after one task returned
\* True and the other one False
C19_Witness ==
    \E c \in 1..Len(calls) :
        /\ calls[c].status = "unmet"
        /\ calls[c].target_acks = 2
        /\ Cardinality(SuccessfulTasks(c)) = 1
        /\ CompletedTasks(c) = secondaries

\* C20: a retry task issues an AppendMessage RPC only in a loop iteration in
\* which its host is not Unhealthy.  A task that starts, wakes up or ends its
\* backoff while the host is Unhealthy goes to sleep without sending anything:
\* attempt is unchanged, backoff too (but for the doubling that ends a
\* backoff), no secondary and no failure count changes.  A sleeping task
\* resumes by sending once its host is no longer Unhealthy, and a task sends
\* while its host is Suspected.
C20_NoRpcWhileUnhealthy ==
    [][\A msg_id \in 1..MaxAppends : \A h \in secondaries :
         LET t == tasks[msg_id][h]
             u == tasks'[msg_id][h]
             resumes == t.pc \in {"start", "sleep", "backoff"} /\ u # t
         IN  /\ (u.pc = "rpc" /\ t.pc # "rpc") =>
                   health_status[h] # UNHEALTHY
             /\ (resumes /\ health_status[h] = UNHEALTHY) =>
                   /\ u.pc = "sleep"
                   /\ u.attempt = t.attempt
                   /\ t.pc # "backoff" => u.backoff = t.backoff
                   /\ sec_messages' = sec_messages
                   /\ failures' = failures
             /\ (resumes /\ health_status[h] # UNHEALTHY) =>
                   /\ u.pc = "rpc"
                   /\ u.attempt = t.attempt
             /\ (resumes /\ t.pc = "sleep") =>
                   /\ health_status[h] # UNHEALTHY
                   /\ u.backoff = t.backoff]_vars

\* C20 witness: a task sleeps on a host that two failed heartbeats had made
\* Unhealthy, and the heartbeat has since set the host back to Healthy
C20_Witness ==
    \E msg_id \in 1..MaxAppends : \E h \in secondaries :
        /\ tasks[msg_id][h].pc = "sleep"
        /\ health_status[h] = HEALTHY
        /\ failures = MaxFailures

Max(a, b) == IF a > b THEN a ELSE b

\* C18: for every integer write_concern w, zero and negative ones included,
\* and every number S >= 0 of secondaries the target is max(0, min(w - 1, S));
\* it is never negative and never exceeds S.
C18_TargetAcks ==
    LET w == target_call.write_concern
        S == target_call.total_secondaries
    IN  /\ target_call.target = Max(0, Min(w - 1, S))
        /\ target_call.target >= 0
        /\ target_call.target <= S

\* C18 witness: a negative write concern on a replicator with secondaries
\* gets target 0
C18_Witness ==
    /\ target_call.write_concern < 0
    /\ target_call.total_secondaries > 0
    /\ target_call.target = 0

\* GrpcReplicator.get_health: a snapshot of the health table
get_health == [h \in DOMAIN health_status |-> health_status[h]]

\* C22: the key set of the health table is the configured host list in every
\* state (so is that of a snapshot), and a step changes the table only if it
\* is the heartbeat check of one host: it changes that host's status alone
\* and nothing of the log, the calls, the retry tasks or the secondaries.
\* Appends with their quorum checks, the ACK wait and the retry tasks leave
\* every status as it was.
C22_HealthTableFrame ==
    /\ DOMAIN health_status = secondaries
    /\ [][/\ DOMAIN health_status' = secondaries
          /\ DOMAIN get_health = secondaries
          /\ health_status' # health_status =>
                \E h \in hb_pending \ hb_pending' :
                    /\ \A g \in secondaries \ {h} :
                          health_status'[g] = health_status[g]
                    /\ UNCHANGED <<masterVars, tasks, sec_messages, sorted_ids>>
          /\ (calls' # calls \/ tasks' # tasks \/ sec_messages' # sec_messages) =>
                health_status' = health_status]_vars

\* C22 witness: a heartbeat has made one host Suspected while the other one is
\* Healthy, and a retry task has failed an attempt on one of them
C22_Witness ==
    \E h, g \in secondaries : \E msg_id \in 1..MaxAppends :
        /\ health_status[h] = SUSPECTED
        /\ health_status[g] = HEALTHY
        /\ \E k \in secondaries : tasks[msg_id][k].attempt > 0

\* every allocated id has a task for every secondary, no other id has one,
\* and no call that was given an id was refused by the replicator's pre-check
FanOutStarted ==
    /\ \A i \in 1..MaxAppends : \A h \in secondaries :
          tasks[i][h].pc # "none" <=> i <= id_counter
    /\ \A c \in Allocated :
          /\ calls[c].status \in {"success", "waiting"}
          /\ calls[c].msg_id \in 1..id_counter

\* C23: the step that allocates an id and appends to the log also passes the
\* replicator's quorum pre-check and spawns the retry tasks of that id, one
\* for every configured secondary whatever its status, each at its start; a
\* task is spawned in no other step and for no other id, so every allocated
\* id has exactly one task per secondary and no message is stored locally
\* without its fan-out.
C23_FanOutWithAllocation ==
    /\ FanOutStarted
    /\ [][/\ FanOutStarted'
          /\ master_messages' # master_messages =>
                /\ id_counter' = id_counter + 1
                /\ get_quorum_status
                /\ calls'[Len(calls')].status \in {"success", "waiting"}
                /\ \A h \in secondaries :
                      /\ tasks[id_counter'][h].pc = "none"
                      /\ tasks'[id_counter'][h].pc = "start"
                /\ \A i \in 1..MaxAppends :
                      i # id_counter' => tasks'[i] = tasks[i]
          /\ \A i \in 1..MaxAppends : \A h \in secondaries :
                (tasks'[i][h].pc = "start" /\ tasks[i][h].pc # "start") =>
                    /\ i = id_counter + 1
                    /\ master_messages' = Append(master_messages,
                                                 tasks'[i][h].message)]_vars

\* C23 witness: an append has passed the gate with one host Unhealthy and has
\* a task at its start for that host too
C23_Witness ==
    \E c \in Allocated : \E h \in secondaries :
        /\ health_status[h] = UNHEALTHY
        /\ \A g \in secondaries : tasks[calls[c].msg_id][g].pc = "start"

\* C24: on every node a read is a prefix of every later read: each step
\* leaves what the master's get_messages returned and what every secondary's
\* get_all returned as a prefix of what they return after it, whatever
\* appends and deliveries the step belongs to; over any number of steps this
\* gives the prefix between two reads of which the first ends before the
\* second starts.
C24_MonotonicReads ==
    [][/\ IsPrefix(get_messages, get_messages')
       /\ \A h \in secondaries : IsPrefix(get_all(h), get_all(h)')]_vars

\* C24 witness: one secondary returns both messages while the other one,
\* which got id 2 first, still returns nothing
C24_Witness ==
    \E h, g \in secondaries :
        /\ Len(get_all(h)) = 2
        /\ get_all(h) = get_messages
        /\ StoredIds(g) = {2}
        /\ get_all(g) = <<>>

\* the appends suspended in the ACK wait with no ACK to read yet
Suspended ==
    {c \in Waiting : ~WaitCanProceed(c)}

\* C25: while an append with target > 0 is suspended in the ACK wait, another
\* append can start (as long as the behaviour has appends left): a client's
\* append with write_concern 1 is enabled; and an append that starts then and
\* passes the quorum gate gets the next id, is appended to the log and, with
\* write_concern 1, has returned success in that step, the suspended append
\* staying as it was.
C25_AppendsDoNotBlock ==
    /\ [](Suspended # {} /\ Len(calls) < MaxAppends =>
            ENABLED (\E content \in ClientPayloads : append_message(content, 1)))
    /\ [][(Suspended # {} /\ Len(calls') = Len(calls) + 1) =>
            LET new == calls'[Len(calls')]
            IN  /\ \A c \in Suspended : calls'[c] = calls[c]
                /\ get_quorum_status =>
                      /\ new.msg_id = id_counter + 1
                      /\ id_counter' = id_counter + 1
                      /\ master_messages' = Append(master_messages, new.content)
                      /\ new.write_concern = 1 => new.status = "success"]_vars

\* C25 witness: the append that holds id 1 is still suspended, none of its
\* tasks completed, and an append with write_concern 1 that started after it
\* has returned id 2
C25_Witness ==
    \E c \in Suspended : \E d \in Succeeded :
        /\ c < d
        /\ calls[c].msg_id = 1
        /\ calls[c].acks_received = 0
        /\ \A h \in secondaries : tasks[1][h].pc # "done"
        /\ calls[d].msg_id = 2
        /\ calls[d].write_concern = 1
        /\ master_messages = <<calls[c].content, calls[d].content>>

\* ------------------------------------------------------------------ shutdown
\* The application as in Spec, with GrpcReplicator.stop called at any moment
\* (MessageService.stop_background_tasks); no request is accepted once the
\* replicator has been stopped, requests in flight go on.
NextShutdown ==
    \/ stop
    \/ /\ background_tasks # {}
       /\ \E content \in ClientPayloads, write_concern \in 1..MaxWriteConcern :
             append_message(content, write_concern)
    \/ \E c \in 1..MaxAppends : wait_for_acks(c)
    \/ retry_step
    \/ heartbeat_step

SpecShutdown == Init /\ [][NextShutdown]_vars

\* a retry task that has been spawned and has neither returned nor been
\* cancelled
LiveRetryTasks ==
    {t \in (1..MaxAppends) \X secondaries :
        /\ tasks[t[1]][t[2]].pc \notin {"none", "done"}
        /\ retry_task(t[1], t[2]) \notin cancelled}

\* C12: once stop() has returned the heartbeat loop is cancelled and no retry
\* task is live any more, so nothing is left that could issue a heartbeat or
\* an AppendMessage RPC.
C12_StopCancelsEverything ==
    background_tasks = {} =>
        /\ heartbeat_task \in cancelled
        /\ LiveRetryTasks = {}

\* ------------------------------------------------- an unreachable secondary
\* The application with one secondary unreachable for good and the other one
\* reachable: every heartbeat and every AppendMessage sent to the first
\* raises, every one sent to the second is answered.
retry_step_unreachable ==
    \E msg_id \in 1..MaxAppends, h \in secondaries :
        \/ retry_start(msg_id, h)
        \/ retry_unhealthy_wake(msg_id, h)
        \/ retry_rpc_success(msg_id, h)
        \/ h \in down /\ retry_rpc_failure(msg_id, h, FALSE)
        \/ retry_backoff_done(msg_id, h)

heartbeat_step_unreachable ==
    \/ \E h \in secondaries : check_single_node(h, h \notin down)
    \/ heartbeat_monitor

\* the event loop resumes a request handler whose as_completed has a
\* completed task to hand over
wait_step == \E c \in 1..MaxAppends : wait_for_acks(c)

NextUnreachable ==
    \/ \E content \in ClientPayloads, write_concern \in 1..MaxWriteConcern :
          append_message(content, write_concern)
    \/ wait_step
    \/ retry_step_unreachable
    \/ heartbeat_step_unreachable

SpecUnreachable == InitUnreachable /\ [][NextUnreachable]_vars

\* the event loop runs every task that is ready: the retry tasks, the
\* heartbeat loop and the request handlers
FairSpecUnreachable ==
    /\ InitUnreachable
    /\ [][NextUnreachable]_vars
    /\ WF_vars(retry_step_unreachable)
    /\ WF_vars(heartbeat_step_unreachable)
    /\ WF_vars(wait_step)

\* C14: an append with target k > 0 returns success on its k-th ACK, having
\* read no further success; with 2 secondaries of which one is unreachable
\* for good, every append with write_concern 2 that passed the gate has
\* eventually returned success on the ACK of the reachable secondary, while
\* the retry task of the unreachable host never ends.
C14_ReturnsOnKthAck ==
    /\ [](\A c \in Succeeded :
            calls[c].target_acks > 0 =>
                /\ calls[c].acks_received = calls[c].target_acks
                /\ Cardinality(Acked(calls[c].msg_id)) >= calls[c].target_acks)
    /\ <>[](\A c \in Allocated :
              calls[c].write_concern = 2 =>
                  /\ c \in Succeeded
                  /\ Acked(calls[c].msg_id) = secondaries \ down)
    /\ [](\A msg_id \in 1..MaxAppends : \A h \in down :
            tasks[msg_id][h].pc # "done")

\* C14 witness: an append with write_concern 2 has returned success on the
\* ACK of the reachable secondary while the task of the unreachable one has
\* failed MaxAttempts times and is still live
C14_Witness ==
    \E c \in Succeeded : \E h \in down :
        /\ calls[c].write_concern = 2
        /\ Acked(calls[c].msg_id) = secondaries \ {h}
        /\ tasks[calls[c].msg_id][h].attempt = MaxAttempts
        /\ tasks[calls[c].msg_id][h].pc \in {"backoff", "sleep", "rpc"}

\* ------------------------------------------------- the backoff of one task
\* stub.AppendMessage to a secondary that never answers raises again and
\* again: the except branch of _replicate_with_retry, followed for up to
\* MaxBackoffFailures failures of the same task
retry_rpc_failure_again(msg_id, h) ==
    /\ tasks[msg_id][h].pc = "rpc"
    /\ retry_task(msg_id, h) \notin cancelled
    /\ h \in down
    /\ tasks[msg_id][h].attempt < MaxBackoffFailures
    /\ tasks' = [tasks EXCEPT ![msg_id][h].pc = "backoff",
                              ![msg_id][h].attempt = @ + 1]
    /\ UNCHANGED <<controlVars, masterVars, heartbeatVars, storageVars, failures>>

\* One message is replicated to a secondary that answers and to one that
\* never does; the tasks of other messages have fields of their own.
NextBackoff ==
    \/ /\ id_counter = 0
       /\ \E content \in ClientPayloads, write_concern \in 1..MaxWriteConcern :
             append_message(content, write_concern)
    \/ wait_step
    \/ \E msg_id \in 1..MaxAppends, h \in secondaries :
          \/ retry_start(msg_id, h)
          \/ retry_unhealthy_wake(msg_id, h)
          \/ retry_rpc_success(msg_id, h)
          \/ retry_rpc_failure_again(msg_id, h)
          \/ retry_backoff_done(msg_id, h)
    \/ heartbeat_step_unreachable

SpecBackoff == InitUnreachable /\ [][NextBackoff]_vars

\* the backoff of every spawned retry task fits its number of failed
\* attempts: min(2^(n-1), 30) while it sleeps after the n-th failure,
\* min(2^n, 30) from then on
BackoffFitsAttempts ==
    \A msg_id \in 1..MaxAppends : \A h \in secondaries :
        LET t == tasks[msg_id][h]
        IN  t.pc # "none" =>
              /\ t.backoff >= RETRY_INITIAL_BACKOFF
              /\ t.backoff <= RETRY_MAX_BACKOFF
              /\ t.pc = "backoff" =>
                    /\ t.attempt >= 1
                    /\ t.backoff = Min(2 ^ (t.attempt - 1), 30)
              /\ t.pc \in {"start", "rpc", "sleep"} =>
                    t.backoff = Min(2 ^ t.attempt, 30)
              /\ t.pc = "done" => t.result

\* C21: the delay a retry task sleeps after its n-th failed attempt in a row
\* is min(2^(n-1), 30) seconds: 1, 2, 4, 8, 16, 30, 30, ...; the backoff is
\* always within 1..30 and never decreases; a failed attempt always leads to
\* the backoff sleep and the next iteration, the task ends only by returning
\* True.
C21_BackoffSequence ==
    /\ BackoffFitsAttempts
    /\ [][/\ BackoffFitsAttempts'
          /\ \A msg_id \in 1..MaxAppends : \A h \in secondaries :
                LET t == tasks[msg_id][h]
                    u == tasks'[msg_id][h]
                IN  /\ t.pc # "none" => u.backoff >= t.backoff
                    /\ u.attempt > t.attempt =>
                          /\ u.pc = "backoff"
                          /\ u.attempt = t.attempt + 1
                          /\ u.backoff = t.backoff
                    /\ (t.pc = "backoff" /\ u # t) =>
                          u.pc \in {"rpc", "sleep"}]_vars

\* C21 witness: a task sleeps 30 seconds after its 7th failed attempt in a
\* row, the second sleep at the cap
C21_Witness ==
    \E msg_id \in 1..MaxAppends : \E h \in secondaries :
        /\ tasks[msg_id][h].pc = "backoff"
        /\ tasks[msg_id][h].attempt = 7
        /\ tasks[msg_id][h].backoff = 30

\* every secondary exposes the whole log of the master
Consistent == \A h \in secondaries : get_all(h) = get_messages

\* C6: once no RPC fails any more and no new append is submitted (every
\* behaviour has at most MaxFailures failures and MaxAppends appends), under
\* fair scheduling of the retry tasks and the heartbeat loop every secondary's
\* get_all eventually equals the master's list and stays equal: every id the
\* master allocated ends up stored on every secondary.
C6_EventualConsistency ==
    <>[](Consistent /\ \A h \in secondaries : StoredIds(h) = 1..id_counter)

\* C6 witness: after failed RPCs and an Unhealthy host both secondaries hold
\* the two messages of the master
C6_Witness ==
    /\ Consistent
    /\ Len(get_messages) = 2
    /\ failures = MaxFailures
    /\ \E h \in secondaries, i \in 1..2 : tasks[i][h].attempt > 0

=============================================================================
